---- MODULE Spec2Model ----
(***************************************************************************)
(* Model of the Danfoss Ally client (src/src/lib.rs): the AllyApi struct,  *)
(* its constructor, get_token, get_devices, and the polling loop of the    *)
(* documentation example that drives them.                                 *)
(*                                                                         *)
(* Strings whose content is inspected by the code (expires_in,             *)
(* access_token) are sequences of one-character strings.  Time is counted  *)
(* in whole seconds, the unit of Duration::as_secs: the clock advances by  *)
(* the sleep of the loop, and an HTTP call returns within the second in    *)
(* which it was issued.                                                    *)
(***************************************************************************)
EXTENDS Integers, Sequences, FiniteSets, TLC

VARIABLES
    env,                       \* process environment read by AllyApi::new and the logger
    pc,                        \* position of main: start, panicked, sleep, check,
                               \* get_token, get_devices, emit, error
    panic_message,             \* message of the panic raised by expect()
    api_key, api_secret,       \* AllyApi.api_key / api_secret
    token,                     \* AllyApi.token
    devices,                   \* AllyApi.devices
    now,                       \* the monotonic clock (Instant::now()), seconds
    time_since_token_renewal,  \* AllyApi.time_since_token_renewal (an Instant)
    time_since_update,         \* AllyApi.time_since_update (an Instant)
    token_result,              \* Result of the renewal of the latest cycle: None, Ok, Err
    devices_result,            \* Result of the latest get_devices: None, Ok, Err
    token_exchange,            \* request/response of the get_token call of this cycle
    devices_exchange,          \* request/response of the get_devices call of this cycle
    log,                       \* log records written during the current cycle
    token_requests,            \* number of POST /oauth2/token requests issued
    device_requests            \* number of GET /ally/devices requests issued

vars == <<env, pc, panic_message, api_key, api_secret, token, devices, now,
          time_since_token_renewal, time_since_update, token_result,
          devices_result, token_exchange, devices_exchange, log,
          token_requests, device_requests>>

(***************************************************************************)
(* Bounds of the model.                                                    *)
(***************************************************************************)
\* number of poll cycles explored
MaxCycles == 4
\* longest device array in a response
MaxDevices == 2

\* sleep(Duration::new(30, 0)) of the poll loop
SleepSeconds == 30

(***************************************************************************)
(* Environment.                                                            *)
(***************************************************************************)
Unset == [set |-> FALSE, value |-> ""]
SetTo(v) == [set |-> TRUE, value |-> v]

EnvSet ==
    [DANFOSS_API_KEY : {Unset, SetTo("key")},
     DANFOSS_API_SECRET : {Unset, SetTo("secret")},
     RUST_LOG : {Unset, SetTo("debug")}]

\* env_logger: without RUST_LOG only errors are written; RUST_LOG=debug
\* enables every level down to debug.
LogEnabled(level) ==
    IF env.RUST_LOG.set /\ env.RUST_LOG.value = "debug"
    THEN level \in {"ERROR", "WARN", "INFO", "DEBUG"}
    ELSE level = "ERROR"

(***************************************************************************)
(* str::parse::<u64>: an optional leading "+", then one or more decimal    *)
(* digits.  The empty string, a lone sign, "-" and any other character are *)
(* errors.  (Overflow needs more than 19 digits, longer than any text of   *)
(* this model.)                                                            *)
(***************************************************************************)
Digits == {"0", "1", "2", "3", "4", "5", "6", "7", "8", "9"}

DigitValue(c) ==
    CASE c = "0" -> 0 [] c = "1" -> 1 [] c = "2" -> 2 [] c = "3" -> 3
      [] c = "4" -> 4 [] c = "5" -> 5 [] c = "6" -> 6 [] c = "7" -> 7
      [] c = "8" -> 8 [] c = "9" -> 9

RECURSIVE ParseDigits(_, _)
ParseDigits(s, acc) ==
    IF s = <<>> THEN [ok |-> TRUE, value |-> acc]
    ELSE IF Head(s) \notin Digits THEN [ok |-> FALSE, value |-> 0]
    ELSE ParseDigits(Tail(s), acc * 10 + DigitValue(Head(s)))

ParseU64(s) ==
    IF s = <<>> THEN [ok |-> FALSE, value |-> 0]
    ELSE IF Len(s) = 1 /\ Head(s) \in {"+", "-"} THEN [ok |-> FALSE, value |-> 0]
    ELSE IF Head(s) = "+" THEN ParseDigits(Tail(s), 0)
    ELSE ParseDigits(s, 0)

(***************************************************************************)
(* Token and the body of the token endpoint's response.                    *)
(***************************************************************************)
ExpiresInTexts ==
    { <<"0">>, <<"3", "0">>, <<"3", "1">>, <<"+", "3", "0">>,
      <<"a">>, <<"-", "1">>, <<>> }

AccessTokens == { <<"A">> }

Bearer == <<"B", "e", "a", "r", "e", "r">>

\* A JSON member: a string, a number, or absent from the object.
JString(s) == [t |-> "string", s |-> s]
JNumber(s) == [t |-> "number", s |-> s]
JAbsent == [t |-> "absent", s |-> <<>>]

TokenBody(wf, at, tt, ei) ==
    [wellFormed |-> wf, access_token |-> at, token_type |-> tt, expires_in |-> ei]

TokenBodies ==
    { TokenBody(TRUE, JString(at), JString(Bearer), JString(ei)) :
        at \in AccessTokens, ei \in ExpiresInTexts }
    \cup
    { TokenBody(TRUE, JString(<<"A">>), JString(Bearer), JNumber(<<"3", "0">>)),
      TokenBody(TRUE, JAbsent, JAbsent, JAbsent),
      TokenBody(FALSE, JAbsent, JAbsent, JAbsent) }

\* serde_json::from_str::<Token>: the text is JSON and the three members
\* are present and are strings.
TokenFromStr(body) ==
    IF body.wellFormed /\ body.access_token.t = "string"
       /\ body.token_type.t = "string" /\ body.expires_in.t = "string"
    THEN [ok |-> TRUE,
          value |-> [access_token |-> body.access_token.s,
                     token_type |-> body.token_type.s,
                     expires_in |-> body.expires_in.s]]
    ELSE [ok |-> FALSE,
          value |-> [access_token |-> <<>>, token_type |-> <<>>, expires_in |-> <<>>]]

StatusCodes == {200, 401}

NetworkError(body) == [net |-> "error", status |-> 0, body |-> body]
Response(status, body) == [net |-> "ok", status |-> status, body |-> body]

TokenResponses ==
    { NetworkError(TokenBody(FALSE, JAbsent, JAbsent, JAbsent)) }
    \cup { Response(st, b) : st \in StatusCodes, b \in TokenBodies }

(***************************************************************************)
(* Devices and the body of the device endpoint's response.                 *)
(***************************************************************************)
Status(code, value) == [code |-> code, value |-> value]

DeviceSet ==
    { [id |-> "d1", name |-> "Living", online |-> TRUE,
       status |-> << Status("temp_current", "21.5"), Status("lock", "true") >>],
      [id |-> "d2", name |-> "Bed", online |-> FALSE,
       status |-> << Status("va_temperature", "19") >>] }

DeviceArrays == UNION { [1..n -> DeviceSet] : n \in 0..MaxDevices }

DevicesBody(wf, hasResult, result, hasT) ==
    [wellFormed |-> wf, hasResult |-> hasResult, result |-> result, hasT |-> hasT]

DevicesBodies ==
    { DevicesBody(TRUE, TRUE, a, TRUE) : a \in DeviceArrays }
    \cup
    { DevicesBody(TRUE, FALSE, <<>>, TRUE),
      DevicesBody(TRUE, TRUE, <<>>, FALSE),
      DevicesBody(FALSE, FALSE, <<>>, FALSE) }

\* serde_json::from_str::<DevicesResponse>: the text is JSON and has the
\* members result and t.
DevicesFromStr(body) ==
    IF body.wellFormed /\ body.hasResult /\ body.hasT
    THEN [ok |-> TRUE, value |-> [result |-> body.result]]
    ELSE [ok |-> FALSE, value |-> [result |-> <<>>]]

DeviceStatusCodes == {200, 429}

DevicesResponses ==
    { NetworkError(DevicesBody(FALSE, FALSE, <<>>, FALSE)) }
    \cup { Response(st, b) : st \in DeviceStatusCodes, b \in DevicesBodies }

(***************************************************************************)
(* AllyApi::new.                                                           *)
(***************************************************************************)
\* the value of every field before a client exists
NoToken == [access_token |-> <<>>, token_type |-> <<>>, expires_in |-> <<>>]

InitialTokenLate == [access_token |-> <<>>, token_type |-> <<>>, expires_in |-> <<"6", "0">>]

\* Token { access_token: String::new(), token_type: String::new(),
\*         expires_in: "0".to_string() }
InitialToken == [access_token |-> <<>>, token_type |-> <<>>, expires_in |-> <<"0">>]

KeyMessage ==
    "No Danfoss API key provided. Please set DANFOSS_API_KEY environment variable."
SecretMessage ==
    "No Danfoss API secret provided.Please set DANFOSS_API_SECRET environment variable."

ExpectDefaulted(var) == [ok |-> TRUE, value |-> var.value]

\* env::var(name).expect(msg): the value when the variable is set, a panic
\* otherwise
Expect(var) == [ok |-> var.set, value |-> var.value]

NoTokenExchange ==
    [sent |-> FALSE, basic |-> <<"", "">>, before |-> NoToken,
     response |-> NetworkError(TokenBody(FALSE, JAbsent, JAbsent, JAbsent))]

NoDevicesExchange ==
    [sent |-> FALSE, bearer |-> <<>>, before |-> <<>>,
     response |-> NetworkError(DevicesBody(FALSE, FALSE, <<>>, FALSE))]

Init ==
    /\ env \in EnvSet
    /\ pc = "start"
    /\ panic_message = ""
    /\ api_key = ""
    /\ api_secret = ""
    /\ token = NoToken
    /\ devices = <<>>
    /\ now = 0
    /\ time_since_token_renewal = 0
    /\ time_since_update = 0
    /\ token_result = "None"
    /\ devices_result = "None"
    /\ token_exchange = NoTokenExchange
    /\ devices_exchange = NoDevicesExchange
    /\ log = <<>>
    /\ token_requests = 0
    /\ device_requests = 0

new ==
    /\ pc = "start"
    /\ LET key == Expect(env.DANFOSS_API_KEY)
           secret == Expect(env.DANFOSS_API_SECRET)
       IN  IF ~key.ok
           THEN /\ pc' = "panicked"
                /\ panic_message' = KeyMessage
                /\ UNCHANGED <<api_key, api_secret, token, devices,
                               time_since_token_renewal, time_since_update>>
           ELSE IF ~secret.ok
           THEN /\ pc' = "panicked"
                /\ panic_message' = SecretMessage
                /\ UNCHANGED <<api_key, api_secret, token, devices,
                               time_since_token_renewal, time_since_update>>
           ELSE /\ pc' = "sleep"
                /\ api_key' = key.value
                /\ api_secret' = secret.value
                /\ devices' = <<>>
                /\ token' = InitialToken
                /\ time_since_update' = now
                /\ time_since_token_renewal' = now
                /\ UNCHANGED panic_message
    /\ UNCHANGED <<env, now, token_result, devices_result, token_exchange,
                   devices_exchange, log, token_requests, device_requests>>

(***************************************************************************)
(* AllyApi::get_token, as a function of the stored token and of what the   *)
(* HTTP exchange produced.  send().await? fails on a transport error only; *)
(* the status of the response is not looked at.                            *)
(***************************************************************************)
get_token(tok, resp) ==
    IF resp.net = "error"
    THEN [result |-> "Err", error |-> "reqwest::Error", token |-> tok]
    ELSE LET parsed == TokenFromStr(resp.body)
         IN  IF parsed.ok
             THEN [result |-> "Ok", error |-> "", token |-> parsed.value]
             ELSE [result |-> "Err", error |-> "serde_json::Error", token |-> tok]

(***************************************************************************)
(* The temperature lines: for device in devices, for status in             *)
(* device.status, one debug record when the code is va_temperature or      *)
(* temp_current.                                                           *)
(***************************************************************************)
IsTemperatureCode(code) == code = "va_temperature" \/ code = "temp_current"

LogRecord(level, name, value) == [level |-> level, name |-> name, value |-> value]

RECURSIVE StatusLines(_, _)
StatusLines(device, sts) ==
    IF sts = <<>> THEN <<>>
    ELSE (IF IsTemperatureCode(Head(sts).code)
          THEN << LogRecord("DEBUG", device.name, Head(sts).value) >>
          ELSE <<>>)
         \o StatusLines(device, Tail(sts))

RECURSIVE TemperatureLines(_)
TemperatureLines(devs) ==
    IF devs = <<>> THEN <<>>
    ELSE StatusLines(Head(devs), Head(devs).status) \o TemperatureLines(Tail(devs))

\* what a log macro of the given level writes
Write(level, records) == IF LogEnabled(level) THEN records ELSE <<>>

get_devices_merging(devs, resp) ==
    IF resp.net = "error"
    THEN [result |-> "Err", error |-> "reqwest::Error", devices |-> devs, lines |-> <<>>]
    ELSE LET parsed == DevicesFromStr(resp.body)
         IN  IF parsed.ok
             THEN [result |-> "Ok", error |-> "",
                   devices |-> devs \o parsed.value.result,
                   lines |-> Write("DEBUG", TemperatureLines(devs \o parsed.value.result))]
             ELSE [result |-> "Err", error |-> "serde_json::Error",
                   devices |-> devs, lines |-> <<>>]

(***************************************************************************)
(* AllyApi::get_devices, as a function of the stored snapshot and of what  *)
(* the HTTP exchange produced.                                             *)
(***************************************************************************)
get_devices(devs, resp) ==
    IF resp.net = "error"
    THEN [result |-> "Err", error |-> "reqwest::Error", devices |-> devs, lines |-> <<>>]
    ELSE LET parsed == DevicesFromStr(resp.body)
         IN  IF parsed.ok
             THEN [result |-> "Ok", error |-> "",
                   devices |-> parsed.value.result,
                   lines |-> Write("DEBUG", TemperatureLines(parsed.value.result))]
             ELSE [result |-> "Err", error |-> "serde_json::Error",
                   devices |-> devs, lines |-> <<>>]

(***************************************************************************)
(* The poll loop of main.                                                  *)
(***************************************************************************)
\* Instant::elapsed().as_secs()
Elapsed(instant) == now - instant

Sleep ==
    /\ pc = "sleep"
    /\ now + SleepSeconds <= MaxCycles * SleepSeconds
    /\ now' = now + SleepSeconds
    /\ pc' = "check"
    /\ log' = <<>>
    /\ UNCHANGED <<env, panic_message, api_key, api_secret, token, devices,
                   time_since_token_renewal, time_since_update, token_result,
                   devices_result, token_exchange, devices_exchange,
                   token_requests, device_requests>>

IsRenewalDueStrict(elapsed, expires) == elapsed > expires

\* elapsed().as_secs() >= expires_in.parse::<u64>()?
IsRenewalDue(elapsed, expires) == elapsed >= expires

CheckNextLenient(elapsed, parsed) ==
    IF ~parsed.ok THEN "get_token"
    ELSE IF IsRenewalDue(elapsed, parsed.value) THEN "get_token"
    ELSE "get_devices"

\* where the loop goes after the renewal check: out of main with the parse
\* error (the ? operator), into the renewal, or past it
CheckNext(elapsed, parsed) ==
    IF ~parsed.ok THEN "error"
    ELSE IF IsRenewalDue(elapsed, parsed.value) THEN "get_token"
    ELSE "get_devices"

CheckToken ==
    /\ pc = "check"
    /\ pc' = CheckNext(Elapsed(time_since_token_renewal), ParseU64(token.expires_in))
    /\ token_result' = IF pc' = "get_devices" THEN "None" ELSE token_result
    /\ UNCHANGED <<env, panic_message, api_key, api_secret, token, devices, now,
                   time_since_token_renewal, time_since_update, devices_result,
                   token_exchange, devices_exchange, log, token_requests,
                   device_requests>>

AfterCallAborting(result, next) == IF result = "Err" THEN "error" ELSE next

\* .unwrap_or_else(|e| error!(...)): the loop goes on whatever the result
AfterCall(result, next) == next

RenewToken ==
    /\ pc = "get_token"
    /\ \E resp \in TokenResponses :
         LET out == get_token(token, resp)
         IN  /\ token' = out.token
             /\ token_result' = out.result
             /\ token_exchange' = [sent |-> TRUE, basic |-> <<api_key, api_secret>>,
                                   before |-> token, response |-> resp]
             /\ log' = log \o
                  (IF out.result = "Err"
                   THEN Write("ERROR", << LogRecord("ERROR", "Could not fetch token.", out.error) >>)
                   ELSE <<>>)
             /\ pc' = AfterCall(out.result, "get_devices")
    /\ token_requests' = token_requests + 1
    /\ time_since_token_renewal' = now
    /\ UNCHANGED <<env, panic_message, api_key, api_secret, devices, now,
                   time_since_update, devices_result, devices_exchange,
                   device_requests>>

FetchDevices ==
    /\ pc = "get_devices"
    /\ \E resp \in DevicesResponses :
         LET out == get_devices(devices, resp)
         IN  /\ devices' = out.devices
             /\ devices_result' = out.result
             /\ devices_exchange' = [sent |-> TRUE, bearer |-> token.access_token,
                                     before |-> devices, response |-> resp]
             /\ log' = log \o out.lines \o
                  (IF out.result = "Err"
                   THEN Write("ERROR", << LogRecord("ERROR", "Could not get devices.", out.error) >>)
                   ELSE <<>>)
             /\ pc' = AfterCall(out.result, "emit")
    /\ device_requests' = device_requests + 1
    /\ time_since_update' = now
    /\ token_exchange' = NoTokenExchange
    /\ UNCHANGED <<env, panic_message, api_key, api_secret, token, now,
                   time_since_token_renewal, token_result, token_requests>>

EmitTemperatures ==
    /\ pc = "emit"
    /\ log' = log \o Write("DEBUG", TemperatureLines(devices))
    /\ pc' = "sleep"
    /\ devices_exchange' = NoDevicesExchange
    /\ UNCHANGED <<env, panic_message, api_key, api_secret, token, devices, now,
                   time_since_token_renewal, time_since_update, token_result,
                   devices_result, token_exchange, token_requests, device_requests>>

Next ==
    \/ new
    \/ Sleep
    \/ CheckToken
    \/ RenewToken
    \/ FetchDevices
    \/ EmitTemperatures

Spec == Init /\ [][Next]_vars

(***************************************************************************)
(* Helpers of the properties.                                              *)
(***************************************************************************)
Range(seq) == { seq[i] : i \in DOMAIN seq }

\* the decimal texts of the model and the number each one denotes
NumericTexts == { <<"0">>, <<"3", "0">>, <<"3", "1">>, <<"+", "3", "0">> }

NumericValue(text) ==
    CASE text = <<"0">> -> 0
      [] text = <<"3", "0">> -> 30
      [] text = <<"3", "1">> -> 31
      [] text = <<"+", "3", "0">> -> 30

\* the texts of the model that denote no non-negative integer
MalformedTexts == { <<"a">>, <<"-", "1">>, <<>> }

\* a renewal that failed in the sense of the specification
RenewalFailure(resp) ==
    \/ resp.net = "error"
    \/ resp.status \notin 200..299
    \/ ~(/\ resp.body.wellFormed
         /\ resp.body.access_token.t = "string"
         /\ resp.body.token_type.t = "string"
         /\ resp.body.expires_in.t = "string")

\* a device fetch that failed in the sense of the specification
FetchFailure(resp) ==
    \/ resp.net = "error"
    \/ resp.status \notin 200..299
    \/ ~(resp.body.wellFormed /\ resp.body.hasResult /\ resp.body.hasT)

\* the (device, status) positions of a snapshot that carry a current temperature
MatchingPairs(devs) ==
    { p \in UNION { { <<i, j>> : j \in DOMAIN devs[i].status } : i \in DOMAIN devs } :
        devs[p[1]].status[p[2]].code \in {"temp_current", "va_temperature"} }

TemperatureRecords == { k \in DOMAIN log : log[k].level = "DEBUG" }

(***************************************************************************)
(* C1: whenever a token renewal fails (network error, non-2xx status, or a *)
(* body that is no Token), get_token returns an error and the stored token *)
(* is the token held before the call.                                      *)
(***************************************************************************)
C1_FailedRenewalKeepsToken ==
    (token_exchange.sent /\ RenewalFailure(token_exchange.response))
        => (token_result = "Err" /\ token = token_exchange.before)

(***************************************************************************)
(* C2: whenever a device fetch fails (network error, non-2xx status, or a  *)
(* malformed body), get_devices returns an error and the snapshot is the   *)
(* snapshot held before the call.                                          *)
(***************************************************************************)
C2_FailedFetchKeepsSnapshot ==
    (devices_exchange.sent /\ FetchFailure(devices_exchange.response))
        => (devices_result = "Err" /\ devices = devices_exchange.before)

(***************************************************************************)
(* C3: after a successful device fetch the snapshot is exactly the device  *)
(* array of the response; a device of the previous snapshot that the       *)
(* response does not list is no longer in the snapshot.                    *)
(***************************************************************************)
C3_SuccessfulFetchReplacesSnapshot ==
    (devices_exchange.sent /\ devices_result = "Ok")
        => /\ devices = devices_exchange.response.body.result
           /\ \A d \in Range(devices_exchange.before) :
                d \notin Range(devices_exchange.response.body.result)
                    => d \notin Range(devices)

C3_Witness ==
    /\ devices_exchange.sent
    /\ devices_result = "Ok"
    /\ devices # <<>>
    /\ \E d \in Range(devices_exchange.before) : d \notin Range(devices)

(***************************************************************************)
(* C4: with e the whole seconds elapsed since the renewal timestamp and x  *)
(* the number the token's expires_in denotes, the renewal check sends the  *)
(* loop into the renewal if and only if e >= x.                            *)
(***************************************************************************)
C4_RenewalDueIffElapsedReached ==
    [][ (pc = "check" /\ token.expires_in \in NumericTexts)
          => /\ pc' = "get_token"
                  <=> now - time_since_token_renewal >= NumericValue(token.expires_in)
             /\ pc' = "get_devices"
                  <=> now - time_since_token_renewal < NumericValue(token.expires_in)
      ]_vars

\* the boundary e = x, found due
C4_Witness ==
    /\ pc = "get_token"
    /\ token.expires_in \in NumericTexts
    /\ NumericValue(token.expires_in) > 0
    /\ now - time_since_token_renewal = NumericValue(token.expires_in)

(***************************************************************************)
(* C5: a freshly constructed client holds a token with expires_in "0" and  *)
(* an empty access_token, so the first cycle attempts a renewal before the *)
(* first device request is issued.                                         *)
(***************************************************************************)
C5_FreshClientRenewsFirst ==
    /\ (pc = "sleep" /\ now = 0)
         => (token.expires_in = <<"0">> /\ token.access_token = <<>>)
    /\ (pc = "get_devices" /\ device_requests = 0) => token_requests = 1
    /\ device_requests > 0 => token_requests > 0

C5_Witness ==
    /\ pc = "get_devices"
    /\ device_requests = 0
    /\ token_requests = 1
    /\ token_exchange.sent
    /\ token_exchange.before.expires_in = <<"0">>

(***************************************************************************)
(* C6: a get_token or get_devices call that returns an error never ends    *)
(* the loop: a failed renewal is followed by the device request of the     *)
(* same cycle, sent with the token held before; a failed fetch is followed *)
(* by the rest of the cycle and the next sleep; main is left with an error *)
(* only from the renewal check, and never from one that follows a failed   *)
(* renewal.                                                                *)
(***************************************************************************)
C6_CallFailureNeverEndsLoop ==
    [][ /\ (pc = "get_token" /\ token_result' = "Err")
             => (pc' = "get_devices" /\ token' = token)
        /\ (pc = "get_devices" /\ token_result = "Err" /\ token_exchange.sent)
             => /\ device_requests' = device_requests + 1
                /\ devices_exchange'.sent
                /\ devices_exchange'.bearer = token_exchange.before.access_token
        /\ (pc = "get_devices" /\ devices_result' = "Err") => pc' = "emit"
        /\ pc = "emit" => pc' = "sleep"
        /\ pc = "sleep" => pc' = "check"
        /\ pc' = "error" => (pc = "check" /\ token_result = "Ok")
      ]_vars

\* a cycle was started after a cycle in which both calls failed
C6_Witness ==
    /\ pc = "check"
    /\ token_result = "Err"
    /\ devices_result = "Err"
    /\ device_requests >= 1

(***************************************************************************)
(* C7: when the renewal of a cycle failed, the renewal check of the very   *)
(* next cycle sends the loop into the renewal again.                       *)
(***************************************************************************)
C7_FailedRenewalRetriedNextCycle ==
    [][ (pc = "check" /\ token_result = "Err") => pc' = "get_token" ]_vars

(***************************************************************************)
(* C8: when the token's expires_in denotes no non-negative integer at the  *)
(* renewal check, main is left with the error in that step: no token       *)
(* request and no device request is issued, and nothing follows.           *)
(***************************************************************************)
C8_MalformedExpiryEndsLoop ==
    [][ /\ (pc = "check" /\ token.expires_in \in MalformedTexts)
             => /\ pc' = "error"
                /\ token_requests' = token_requests
                /\ device_requests' = device_requests
                /\ token' = token
                /\ devices' = devices
        /\ pc # "error"
      ]_vars

C8_Witness ==
    /\ pc = "error"
    /\ token.expires_in \in MalformedTexts
    /\ token_requests >= 1

(***************************************************************************)
(* C9: at the end of a poll cycle with debug output enabled, the cycle has *)
(* written exactly one temperature record for each (device, status) pair   *)
(* of the snapshot whose code is temp_current or va_temperature, and none  *)
(* for any other status.                                                   *)
(***************************************************************************)
C9_OneLinePerTemperatureStatus ==
    (pc = "sleep" /\ device_requests > 0 /\ LogEnabled("DEBUG"))
        => /\ Cardinality(TemperatureRecords) = Cardinality(MatchingPairs(devices))
           /\ \A p \in MatchingPairs(devices) :
                Cardinality({ k \in TemperatureRecords :
                                /\ log[k].name = devices[p[1]].name
                                /\ log[k].value = devices[p[1]].status[p[2]].value })
                  = Cardinality({ q \in MatchingPairs(devices) :
                                /\ devices[q[1]].name = devices[p[1]].name
                                /\ devices[q[1]].status[q[2]].value
                                     = devices[p[1]].status[p[2]].value })

(***************************************************************************)
(* C10: when DANFOSS_API_KEY or DANFOSS_API_SECRET is absent from the      *)
(* environment, construction panics: no client is ever built and no token  *)
(* request or device request is ever issued.                               *)
(***************************************************************************)
C10_MissingCredentialHaltsConstruction ==
    (~env.DANFOSS_API_KEY.set \/ ~env.DANFOSS_API_SECRET.set)
        => /\ pc \in {"start", "panicked"}
           /\ token = NoToken
           /\ api_key = "" /\ api_secret = ""
           /\ token_requests = 0
           /\ device_requests = 0
           /\ ~token_exchange.sent /\ ~devices_exchange.sent

C10_Witness ==
    /\ pc = "panicked"
    /\ ~env.DANFOSS_API_KEY.set
    /\ panic_message = KeyMessage

====
